---- MODULE Spec2Model ----
(***************************************************************************)
(* The MongoDB proxy: an Express application that checks a bearer token,   *)
(* checks the required body fields and forwards each route to one          *)
(* operation of the MongoDB driver.  The repository holds three variants   *)
(* of the application:                                                     *)
(*   "app"      src/src/app.js       (dbName/collectionName in the body)   *)
(*   "part_001" src/unnamed/part_001 (the same, handlers in asyncHandler)  *)
(*   "part_000" src/unnamed/part_000 (collection in the body or query,     *)
(*                                    the variant the test suite imports)  *)
(* One request is served per step; the step is the whole middleware chain  *)
(* and the route handler, including the driver calls the handler awaits.   *)
(***************************************************************************)
EXTENDS Integers, Sequences, FiniteSets, TLC

(* ------------------------------ bounds -------------------------------- *)
\* number of ObjectIds the driver hands out before inserts stop
MaxIds == 2
\* largest page number a find request carries
MaxPage == 1
\* largest pageSize a find request carries
MaxPageSize == 2

(* --------------------------- JSON values ------------------------------ *)
Undefined == [t |-> "undefined"]
Null == [t |-> "null"]
Str(s) == [t |-> "string", s |-> s]
Num(n) == [t |-> "number", n |-> n]
NaN == [t |-> "NaN"]
Obj(f) == [t |-> "object", f |-> f]
Arr(a) == [t |-> "array", a |-> a]
\* a native ObjectId, and the 24 hex digit string JSON serialises it to
ObjectId(n) == [t |-> "ObjectId", n |-> n]
Hex(n) == [t |-> "hex", n |-> n]

\* JavaScript truthiness, as used by `!x`, `x ? a : b` and `x && y`
Truthy(v) ==
  CASE v.t = "undefined" -> FALSE
    [] v.t = "null" -> FALSE
    [] v.t = "NaN" -> FALSE
    [] v.t = "string" -> v.s # ""
    [] v.t = "number" -> v.n # 0
    [] v.t = "header" -> v.chars # <<>>
    [] OTHER -> TRUE

\* Number(x) for the values a request carries
Number(v) ==
  CASE v.t = "number" -> v
    [] v.t = "string" -> IF v.s = "" THEN Num(0) ELSE NaN
    [] v.t = "null" -> Num(0)
    [] OTHER -> NaN

\* a * b of JavaScript on the values above
Times(a, b) ==
  LET x == Number(a)
      y == Number(b)
  IN IF x.t = "number" /\ y.t = "number" THEN Num(x.n * y.n) ELSE NaN

(* ----------------------- the Authorization header --------------------- *)
\* A header value is a string, kept as the sequence of its pieces; the piece
\* "Bearer " is the literal the middleware replaces.
Header(chars) == [t |-> "header", chars |-> chars]
Bearer == "Bearer "

\* process.env.ALLOWED_TOKENS.split(',')
allowedTokens == {<<"test", "token">>}

\* String.prototype.replace with a string pattern: the first occurrence, wherever it is
replace(chars, pat) ==
  IF \E i \in 1..Len(chars) : chars[i] = pat
  THEN LET i == CHOOSE k \in 1..Len(chars) :
                  /\ chars[k] = pat
                  /\ \A j \in 1..(k - 1) : chars[j] # pat
       IN SubSeq(chars, 1, i - 1) \o SubSeq(chars, i + 1, Len(chars))
  ELSE chars

AuthHeaders ==
  { Undefined,
    Header(<<>>),
    Header(<<Bearer, "test", "token">>),
    Header(<<"test", "token">>),
    Header(<<Bearer, "invalid">>),
    Header(<<"test", Bearer, "token">>) }

GoodHeader == Header(<<Bearer, "test", "token">>)

(* ------------------------- documents and ids -------------------------- *)
Ids == 1..MaxIds

\* new ObjectId(x): a 24 hex digit string parses, any other string throws
IsValidObjectId(v) == v.t = "hex"
NewObjectId(v) == ObjectId(v.n)
BSONError == "input must be a 24 character hex string, 12 byte Uint8Array, or an integer"

\* res.json(): an ObjectId is written as its hex string
toJSON(v) == IF v.t = "ObjectId" THEN Hex(v.n) ELSE v

\* new Date()
Now == Str("now")

\* the JSON objects clients submit: documents, updates, filters, pipelines
DocAlice == ("name" :> Str("Alice"))
DocBob == ("name" :> Str("Bob") @@ "createdAt" :> Str("old"))
Documents == {DocAlice, DocBob}
UpdCarol == ("name" :> Str("Carol") @@ "updatedAt" :> Str("old"))
Updates == {UpdCarol}
FilterAlice == ("name" :> Str("Alice"))
FilterId(v) == ("_id" :> v)
NotHex == Str("zz")

\* { ...a, ...b }: the fields of b replace those of a
Spread(a, b) == b @@ a

\* JSON.stringify as res.json() applies it to a driver result
RECURSIVE json(_)
json(v) ==
  CASE v.t = "object" -> Obj([k \in DOMAIN v.f |-> json(v.f[k])])
    [] v.t = "array" -> Arr([i \in 1..Len(v.a) |-> json(v.a[i])])
    [] OTHER -> toJSON(v)

\* the documents of a cursor as the array toArray() gives
toArray(ds) == Arr([i \in 1..Len(ds) |-> Obj(ds[i])])

(* ------------------------- the database ------------------------------- *)
DbNames == {"shop"}
CollNames == {"users", "logs"}
Namespaces == DbNames \X CollNames

NoCollection == [exists |-> FALSE, docs |-> <<>>, indexes |-> {}]
EmptyStore == [ns \in Namespaces |-> NoCollection]

\* equality-match of a query filter against a document
Matches(d, filter) == \A k \in DOMAIN filter : k \in DOMAIN d /\ d[k] = filter[k]

RECURSIVE SelectDocs(_, _)
SelectDocs(ds, filter) ==
  IF ds = <<>> THEN <<>>
  ELSE IF Matches(Head(ds), filter)
       THEN <<Head(ds)>> \o SelectDocs(Tail(ds), filter)
       ELSE SelectDocs(Tail(ds), filter)

\* cursor.skip(n).limit(m)
SkipLimit(ds, skip, limit) ==
  SubSeq(ds, skip + 1, IF skip + limit < Len(ds) THEN skip + limit ELSE Len(ds))

\* results of the driver calls: ok, the error message, the store afterwards, a value
Ok(st, value) == [ok |-> TRUE, error |-> "", store |-> st, value |-> value]
Fail(st, msg) == [ok |-> FALSE, error |-> msg, store |-> st, value |-> Null]

createCollection(st, ns) ==
  IF st[ns].exists
  THEN Fail(st, "Collection already exists")
  ELSE Ok([st EXCEPT ![ns].exists = TRUE], Null)

createIndex(st, ns, kind) ==
  Ok([st EXCEPT ![ns].exists = TRUE, ![ns].indexes = @ \cup {kind}], Null)

drop(st, ns) ==
  IF st[ns].exists
  THEN Ok([st EXCEPT ![ns] = NoCollection], Null)
  ELSE Fail(st, "ns not found")

count(st, ns, filter) == Len(SelectDocs(st[ns].docs, filter))

find(st, ns, filter, skip, limit) == SkipLimit(SelectDocs(st[ns].docs, filter), skip, limit)

\* a pipeline of $match stages
RECURSIVE aggregate(_, _)
aggregate(ds, pipeline) ==
  IF pipeline = <<>> THEN ds
  ELSE aggregate(SelectDocs(ds, Head(pipeline)), Tail(pipeline))

\* the driver gives a document without _id a fresh ObjectId
insertOne(st, ns, doc, oid) ==
  Ok([st EXCEPT ![ns].exists = TRUE,
                ![ns].docs = Append(@, Spread(doc, "_id" :> ObjectId(oid)))],
     Obj("acknowledged" :> Str("true") @@ "insertedId" :> ObjectId(oid)))

RECURSIVE WithIds(_, _)
WithIds(docs, oid) ==
  IF docs = <<>> THEN <<>>
  ELSE <<Spread(Head(docs), "_id" :> ObjectId(oid))>> \o WithIds(Tail(docs), oid + 1)

insertMany(st, ns, docs, oid) ==
  Ok([st EXCEPT ![ns].exists = TRUE,
                ![ns].docs = @ \o WithIds(docs, oid)],
     Obj("acknowledged" :> Str("true") @@ "insertedCount" :> Num(Len(docs))))

\* index of the first document matching the filter, 0 when there is none
FirstMatch(ds, filter) ==
  IF \E i \in 1..Len(ds) : Matches(ds[i], filter)
  THEN CHOOSE i \in 1..Len(ds) :
         /\ Matches(ds[i], filter)
         /\ \A j \in 1..(i - 1) : ~Matches(ds[j], filter)
  ELSE 0

\* findOneAndUpdate asked for the document after the update
findOneAndUpdate_returnsNew(st, ns, filter, set) ==
  LET i == FirstMatch(st[ns].docs, filter)
  IN IF i = 0
     THEN Ok(st, Obj("value" :> Null))
     ELSE Ok([st EXCEPT ![ns].docs[i] = Spread(@, set)],
             Obj("value" :> Obj(Spread(st[ns].docs[i], set))))

\* { $set: set } on the first match; the value is the document before the
\* update (returnNewDocument is not an option of the driver, returnOriginal
\* asks for the same)
findOneAndUpdate(st, ns, filter, set) ==
  LET i == FirstMatch(st[ns].docs, filter)
  IN IF i = 0
     THEN Ok(st, Obj("value" :> Null))
     ELSE Ok([st EXCEPT ![ns].docs[i] = Spread(@, set)],
             Obj("value" :> Obj(st[ns].docs[i])))

RemoveAt(ds, i) == SubSeq(ds, 1, i - 1) \o SubSeq(ds, i + 1, Len(ds))

findOneAndDelete(st, ns, filter) ==
  LET i == FirstMatch(st[ns].docs, filter)
  IN IF i = 0
     THEN Ok(st, Obj("value" :> Null))
     ELSE Ok([st EXCEPT ![ns].docs = RemoveAt(@, i)],
             Obj("value" :> Obj(st[ns].docs[i])))

(* ----------------------------- requests ------------------------------- *)
Variants == {"app", "part_000", "part_001"}

Routes ==
  {"health", "create", "delete", "find", "aggregate", "insert", "insertMany",
   "findByIdAndUpdate", "findByIdAndDelete"}

\* the operation parameters of a body (of the query string for the GET
\* routes of part_000), all absent
NoParams ==
  [index |-> Undefined, searchIndex |-> Undefined, filter |-> Undefined,
   page |-> Undefined, pageSize |-> Undefined, pipeline |-> Undefined,
   document |-> Undefined, documents |-> Undefined, id |-> Undefined,
   update |-> Undefined]

IndexSpec == Obj("name" :> Num(1))
Filters ==
  {Undefined, Obj(FilterAlice), Obj(FilterId(NotHex))}
    \cup {Obj(FilterId(Hex(i))) : i \in Ids}
Pages == {Undefined} \cup {Num(n) : n \in 0..MaxPage}
PageSizes == {Undefined, Str("many")} \cup {Num(n) : n \in 0..MaxPageSize}
Pipelines == {Undefined, Arr(<<>>), Arr(<<FilterAlice>>)}
DocumentArgs == {Undefined} \cup {Obj(d) : d \in Documents}
DocumentsArgs ==
  {Undefined, Obj(DocAlice), Arr(<<>>), Arr(<<DocAlice>>), Arr(<<DocBob, DocAlice>>)}
IdArgs == {Undefined, NotHex} \cup {Hex(i) : i \in Ids}
UpdateArgs == {Undefined} \cup {Obj(u) : u \in Updates}

Params(route) ==
  CASE route = "create" ->
         {NoParams, [NoParams EXCEPT !.index = IndexSpec, !.searchIndex = IndexSpec]}
    [] route = "find" ->
         {[NoParams EXCEPT !.filter = f, !.page = p, !.pageSize = s] :
            f \in {Undefined, Obj(FilterAlice)}, p \in Pages, s \in PageSizes}
           \cup {[NoParams EXCEPT !.filter = f, !.page = p] :
                   f \in Filters, p \in {Undefined, Num(1)}}
    [] route = "aggregate" -> {[NoParams EXCEPT !.pipeline = p] : p \in Pipelines}
    [] route = "insert" -> {[NoParams EXCEPT !.document = d] : d \in DocumentArgs}
    [] route = "insertMany" -> {[NoParams EXCEPT !.documents = d] : d \in DocumentsArgs}
    [] route = "findByIdAndUpdate" ->
         {[NoParams EXCEPT !.id = i, !.update = u] : i \in IdArgs, u \in UpdateArgs}
    [] route = "findByIdAndDelete" -> {[NoParams EXCEPT !.id = i] : i \in IdArgs}
    [] OTHER -> {NoParams}

\* one complete set of parameters per route, sent under every envelope
Typical(route) ==
  CASE route = "create" -> NoParams
    [] route = "find" -> [NoParams EXCEPT !.page = Num(0), !.pageSize = Num(1)]
    [] route = "aggregate" -> [NoParams EXCEPT !.pipeline = Arr(<<>>)]
    [] route = "insert" -> [NoParams EXCEPT !.document = Obj(DocAlice)]
    [] route = "insertMany" -> [NoParams EXCEPT !.documents = Arr(<<DocAlice>>)]
    [] route = "findByIdAndUpdate" ->
         [NoParams EXCEPT !.id = Hex(1), !.update = Obj(UpdCarol)]
    [] route = "findByIdAndDelete" -> [NoParams EXCEPT !.id = Hex(1)]
    [] OTHER -> NoParams

\* the Authorization header and the fields that name the collection:
\* dbName and collectionName in app and part_001, collection in part_000
Envelope(route, h, d, c, c0) ==
  [route |-> route, authorization |-> h, dbName |-> d, collectionName |-> c,
   collection |-> c0]

NamePairs ==
  { <<Undefined, Undefined>>, <<Undefined, Str("users")>>, <<Str(""), Str("users")>>,
    <<Str("shop"), Undefined>>, <<Str("shop"), Str("")>> }
    \cup {<<Str(d), Str(c)>> : d \in DbNames, c \in CollNames}

\* every header with the collection named, every naming under the good
\* header, and requests that fail both checks
Envelopes(v, route) ==
  IF v = "part_000"
  THEN {Envelope(route, h, Undefined, Undefined, Str("users")) : h \in AuthHeaders}
         \cup {Envelope(route, GoodHeader, Undefined, Undefined, c) :
                 c \in {Undefined, Str("")} \cup {Str(n) : n \in CollNames}}
         \cup {Envelope(route, Undefined, Undefined, Undefined, Undefined)}
  ELSE {Envelope(route, h, Str("shop"), Str("users"), Undefined) : h \in AuthHeaders}
         \cup {Envelope(route, GoodHeader, n[1], n[2], Undefined) : n \in NamePairs}
         \cup {Envelope(route, h, Undefined, Undefined, Undefined) :
                 h \in {Undefined, Header(<<Bearer, "invalid">>)}}

GoodEnvelopes(v, route) ==
  IF v = "part_000"
  THEN {Envelope(route, GoodHeader, Undefined, Undefined, Str("users"))}
  ELSE {Envelope(route, GoodHeader, Str(d), Str("users"), Undefined) : d \in DbNames}

\* the requests a client sends to variant v on a route: every envelope with
\* the typical parameters, and every parameter choice under a good envelope
Requests(v, route) ==
  {e @@ Typical(route) : e \in Envelopes(v, route)}
    \cup {e @@ p : e \in GoodEnvelopes(v, route), p \in Params(route)}

NoRequest == Envelope("none", Undefined, Undefined, Undefined, Undefined) @@ NoParams

RequestTable == [v \in Variants |-> [route \in Routes |-> Requests(v, route)]]

(* ----------------------------- responses ------------------------------ *)
NoResponse == [status |-> 0, body |-> Undefined, TotalRecords |-> Undefined]
Response(status, body) == [status |-> status, body |-> body, TotalRecords |-> Undefined]
Text(s) == [t |-> "text", s |-> s]
ErrorBody(msg) == Obj("error" :> Str(msg))
MessageBody(msg, name) == Obj("message" :> Str(msg) @@ "collection" :> name)

\* what a handler did: it sent a response, or it threw (its promise rejected)
\* and sent nothing; store is the database it left, used the ObjectIds it drew
Sent(r, st, used) == [thrown |-> FALSE, error |-> "", res |-> r, store |-> st, used |-> used]
Thrown(msg, st) == [thrown |-> TRUE, error |-> msg, res |-> NoResponse, store |-> st, used |-> 0]

(* ------------------- middleware of app and part_001 ------------------- *)
\* app.get('/health') answers before the token is looked at
health(r) == Response(200, Text("MongoDB Proxy is running"))

\* the token check: TRUE when the middleware calls next()
auth(r) ==
  LET token == r.authorization
  IN Truthy(token) /\ replace(token.chars, Bearer) \in allowedTokens

Unauthorized == Response(401, ErrorBody("Unauthorized"))

\* the required-field check: TRUE when the middleware calls next()
requiredFields(r) == ~(~Truthy(r.collectionName) \/ ~Truthy(r.dbName))

MissingFields == Response(401, ErrorBody("Missing collection or db in body"))

\* the error-handling middleware
errorHandler(msg) == Response(500, ErrorBody(msg))

\* the required-field check registered before the token check
chain_fieldsFirst(r) ==
  IF r.route = "health" THEN "health"
  ELSE IF ~requiredFields(r) THEN "missing"
  ELSE IF ~auth(r) THEN "unauthorized"
  ELSE "next"

\* the order in which app.get and app.use register: the health route, the
\* token check, the required-field check, then the data routes
chain(r) ==
  IF r.route = "health" THEN "health"
  ELSE IF ~auth(r) THEN "unauthorized"
  ELSE IF ~requiredFields(r) THEN "missing"
  ELSE "next"

(* -------------------- handlers of app and part_001 -------------------- *)
\* mongoClient.db(dbName).collection(collectionName)
Namespace(r) == <<r.dbName.s, r.collectionName.s>>

EmptyObject == [k \in {} |-> Undefined]
createSearchIndex(st, ns) == createIndex(st, ns, "searchIndex")

\* POST /create
create(st, oid, r) ==
  LET ns == Namespace(r)
      c == createCollection(st, ns)
      s1 == IF Truthy(r.index) THEN createIndex(c.store, ns, "index").store ELSE c.store
      s2 == IF Truthy(r.searchIndex) THEN createSearchIndex(s1, ns).store ELSE s1
  IN IF ~c.ok THEN Thrown(c.error, st)
     ELSE Sent(Response(201, MessageBody("created", r.collectionName)), s2, 0)

\* DELETE /delete
delete(st, oid, r) ==
  LET d == drop(st, Namespace(r))
  IN IF ~d.ok THEN Thrown(d.error, st)
     ELSE Sent(Response(200, MessageBody("deleted", r.collectionName)), d.store, 0)

\* const skip = page ? Number(page) * pageSize : 0
Skip(page, pageSize) == IF Truthy(page) THEN Times(Number(page), pageSize) ELSE Num(0)
\* const limit = pageSize ? Number(pageSize) || 10 : 10
DefaultLimit == 10
Limit(pageSize) ==
  IF Truthy(pageSize)
  THEN IF Truthy(Number(pageSize)) THEN Number(pageSize) ELSE Num(DefaultLimit)
  ELSE Num(DefaultLimit)

\* count(filter || {}), find(filter || {}).skip(skip).limit(limit).toArray(),
\* then the TotalRecords header and the array; a skip that is not a number
\* is refused by the database
runFind(st, ns, filter, page, pageSize) ==
  LET skip == Skip(page, pageSize)
      limit == Limit(pageSize)
      q == IF Truthy(filter) THEN filter.f ELSE EmptyObject
      total == count(st, ns, q)
  IN IF skip.t = "NaN"
     THEN Thrown("skip must be an integer", st)
     ELSE Sent([status |-> 200,
                body |-> json(toArray(find(st, ns, q, skip.n, limit.n))),
                TotalRecords |-> Num(total)], st, 0)

\* POST /find of app: the filter is forwarded as it came
find_app(st, oid, r) == runFind(st, Namespace(r), r.filter, r.page, r.pageSize)

\* POST /find of part_001: filter._id becomes an ObjectId first
find_part001(st, oid, r) ==
  IF Truthy(r.filter) /\ "_id" \in DOMAIN r.filter.f /\ Truthy(r.filter.f["_id"])
  THEN IF IsValidObjectId(r.filter.f["_id"])
       THEN runFind(st, Namespace(r),
                    Obj(Spread(r.filter.f, FilterId(NewObjectId(r.filter.f["_id"])))),
                    r.page, r.pageSize)
       ELSE Thrown(BSONError, st)
  ELSE runFind(st, Namespace(r), r.filter, r.page, r.pageSize)

\* POST /aggregate
aggregate_(st, oid, r) ==
  IF ~Truthy(r.pipeline)
  THEN Sent(Response(400, ErrorBody("Missing collection or pipeline param")), st, 0)
  ELSE Sent(Response(200,
                     json(toArray(aggregate(st[Namespace(r)].docs, r.pipeline.a)))),
            st, 0)

\* POST /insert of app
insert_app(st, oid, r) ==
  IF ~Truthy(r.document)
  THEN Sent(Response(400, ErrorBody("Missing collection or document in body")), st, 0)
  ELSE LET result == insertOne(st, Namespace(r), r.document.f, oid)
       IN Sent(Response(201, json(result.value)), result.store, 1)

\* POST /insert storing the stamps without the submitted document
insert_part001_stampsOnly(st, oid, r) ==
  IF ~Truthy(r.document)
  THEN Sent(Response(400, ErrorBody("Missing collection or document in body")), st, 0)
  ELSE LET stamped == ("createdAt" :> Now @@ "updatedAt" :> Now)
           result == insertOne(st, Namespace(r), stamped, oid)
       IN Sent(Response(201, json(result.value)), result.store, 1)

\* POST /insert of part_001: { ...document, createdAt: now, updatedAt: now }
insert_part001(st, oid, r) ==
  IF ~Truthy(r.document)
  THEN Sent(Response(400, ErrorBody("Missing collection or document in body")), st, 0)
  ELSE LET stamped == Spread(r.document.f, "createdAt" :> Now @@ "updatedAt" :> Now)
           result == insertOne(st, Namespace(r), stamped, oid)
       IN Sent(Response(201, json(result.value)), result.store, 1)

\* POST /insertMany without the check for an empty array
insertMany_acceptsEmpty(st, oid, r) ==
  IF ~(r.documents.t = "array")
  THEN Sent(Response(400, ErrorBody("Missing collection or documents in body")), st, 0)
  ELSE LET result == insertMany(st, Namespace(r), r.documents.a, oid)
       IN Sent(Response(201, json(result.value)), result.store, Len(r.documents.a))

\* POST /insertMany
insertMany_(st, oid, r) ==
  IF ~(r.documents.t = "array") \/ Len(r.documents.a) = 0
  THEN Sent(Response(400, ErrorBody("Missing collection or documents in body")), st, 0)
  ELSE LET result == insertMany(st, Namespace(r), r.documents.a, oid)
       IN Sent(Response(201, json(result.value)), result.store, Len(r.documents.a))

\* POST /findByIdAndUpdate of app
findByIdAndUpdate_app(st, oid, r) ==
  IF ~Truthy(r.id) \/ ~Truthy(r.update)
  THEN Sent(Response(400, ErrorBody("Missing collection, id or update in body")), st, 0)
  ELSE IF ~IsValidObjectId(r.id) THEN Thrown(BSONError, st)
  ELSE LET result == findOneAndUpdate(st, Namespace(r), FilterId(NewObjectId(r.id)),
                                      r.update.f)
       IN Sent(Response(200, json(result.value)), result.store, 0)

\* POST /findByIdAndUpdate of part_001: { $set: { ...update, updatedAt: new Date() } }
findByIdAndUpdate_part001(st, oid, r) ==
  IF ~Truthy(r.id) \/ ~Truthy(r.update)
  THEN Sent(Response(400, ErrorBody("Missing collection, id or update in body")), st, 0)
  ELSE IF ~IsValidObjectId(r.id) THEN Thrown(BSONError, st)
  ELSE LET result == findOneAndUpdate(st, Namespace(r), FilterId(NewObjectId(r.id)),
                                      Spread(r.update.f, "updatedAt" :> Now))
       IN Sent(Response(200, json(result.value)), result.store, 0)

\* DELETE /findByIdAndDelete with the id used as it came, { _id: id }
findByIdAndDelete_rawId(st, oid, r) ==
  IF ~Truthy(r.id)
  THEN Sent(Response(400, ErrorBody("Missing collection or id in body")), st, 0)
  ELSE LET result == findOneAndDelete(st, Namespace(r), FilterId(r.id))
       IN Sent(Response(200, json(result.value)), result.store, 0)

\* DELETE /findByIdAndDelete
findByIdAndDelete(st, oid, r) ==
  IF ~Truthy(r.id)
  THEN Sent(Response(400, ErrorBody("Missing collection or id in body")), st, 0)
  ELSE IF ~IsValidObjectId(r.id) THEN Thrown(BSONError, st)
  ELSE LET result == findOneAndDelete(st, Namespace(r), FilterId(NewObjectId(r.id)))
       IN Sent(Response(200, json(result.value)), result.store, 0)

(* ------------------------------ part_000 ------------------------------ *)
\* `let db;` is declared and never assigned: connectDB stores the handle
\* in app.locals.db
db == Undefined
DefaultDb == "shop"
TypeErrorOf(prop) == "Cannot read properties of undefined (reading '" \o prop \o "')"

\* the token check of part_000: token.replace is called on whatever the
\* header is, so a request without the header makes the middleware throw
auth_part000(r) ==
  LET token == r.authorization
  IN IF token.t = "undefined" THEN "throw"
     ELSE IF replace(token.chars, Bearer) \in allowedTokens THEN "next" ELSE "reject"

\* Express answers an error no middleware handles with 500 and the error text
defaultErrorHandler(msg) == Response(500, Text(msg))

Namespace000(r) == <<DefaultDb, r.collection.s>>

\* POST /create: inside the block `collection` names the const declared two
\* lines below, so db.createCollection(collection) cannot read it
create_part000(st, oid, r) ==
  IF ~Truthy(r.collection)
  THEN Sent(Response(400, ErrorBody("Missing collection or index in body")), st, 0)
  ELSE IF db.t = "undefined"
  THEN Sent(Response(500, ErrorBody(TypeErrorOf("listCollections"))), st, 0)
  ELSE IF ~st[Namespace000(r)].exists
  THEN Sent(Response(500, ErrorBody("Cannot access 'collection' before initialization")),
            st, 0)
  ELSE Sent(NoResponse, st, 0)

\* DELETE /delete
delete_part000(st, oid, r) ==
  IF ~Truthy(r.collection)
  THEN Sent(Response(400, ErrorBody("Missing collection in body")), st, 0)
  ELSE IF db.t = "undefined"
  THEN Sent(Response(500, ErrorBody(TypeErrorOf("collection"))), st, 0)
  ELSE LET d == drop(st, Namespace000(r))
       IN IF ~d.ok THEN Sent(Response(500, ErrorBody(d.error)), st, 0)
          ELSE Sent(Response(200, MessageBody("deleted", r.collection)), d.store, 0)

\* GET /find
find_part000(st, oid, r) ==
  IF ~Truthy(r.collection)
  THEN Sent(Response(400, ErrorBody("Missing collection param")), st, 0)
  ELSE IF db.t = "undefined"
  THEN Sent(Response(500, ErrorBody(TypeErrorOf("collection"))), st, 0)
  ELSE LET out == runFind(st, Namespace000(r), r.filter, r.page, r.pageSize)
       IN IF out.thrown THEN Sent(Response(500, ErrorBody(out.error)), st, 0)
          ELSE Sent(Response(200, out.res.body), st, 0)

\* GET /aggregate
aggregate_part000(st, oid, r) ==
  IF ~Truthy(r.collection) \/ ~Truthy(r.pipeline)
  THEN Sent(Response(400, ErrorBody("Missing collection or pipeline param")), st, 0)
  ELSE IF db.t = "undefined"
  THEN Sent(Response(500, ErrorBody(TypeErrorOf("collection"))), st, 0)
  ELSE Sent(Response(200,
                     json(toArray(aggregate(st[Namespace000(r)].docs, r.pipeline.a)))),
            st, 0)

\* POST /insert
insert_part000(st, oid, r) ==
  IF ~Truthy(r.collection) \/ ~Truthy(r.document)
  THEN Sent(Response(400, ErrorBody("Missing collection or document in body")), st, 0)
  ELSE IF db.t = "undefined"
  THEN Sent(Response(500, ErrorBody(TypeErrorOf("collection"))), st, 0)
  ELSE LET result == insertOne(st, Namespace000(r), r.document.f, oid)
       IN Sent(Response(201, json(result.value)), result.store, 1)

\* POST /insertMany
insertMany_part000(st, oid, r) ==
  IF ~Truthy(r.collection) \/ ~(r.documents.t = "array") \/ Len(r.documents.a) = 0
  THEN Sent(Response(400, ErrorBody("Missing collection or documents in body")), st, 0)
  ELSE IF db.t = "undefined"
  THEN Sent(Response(500, ErrorBody(TypeErrorOf("collection"))), st, 0)
  ELSE LET result == insertMany(st, Namespace000(r), r.documents.a, oid)
       IN Sent(Response(201, json(result.value)), result.store, Len(r.documents.a))

\* PUT /findByIdAndUpdate: the id is used as it came, { _id: id }
findByIdAndUpdate_part000(st, oid, r) ==
  IF ~Truthy(r.collection) \/ ~Truthy(r.id) \/ ~Truthy(r.update)
  THEN Sent(Response(400, ErrorBody("Missing collection, id or update in body")), st, 0)
  ELSE IF db.t = "undefined"
  THEN Sent(Response(500, ErrorBody(TypeErrorOf("collection"))), st, 0)
  ELSE LET result == findOneAndUpdate(st, Namespace000(r), FilterId(r.id), r.update.f)
       IN Sent(Response(200, json(result.value)), result.store, 0)

\* DELETE /findByIdAndDelete
findByIdAndDelete_part000(st, oid, r) ==
  IF ~Truthy(r.collection) \/ ~Truthy(r.id)
  THEN Sent(Response(400, ErrorBody("Missing collection or id in body")), st, 0)
  ELSE IF db.t = "undefined"
  THEN Sent(Response(500, ErrorBody(TypeErrorOf("collection"))), st, 0)
  ELSE LET result == findOneAndDelete(st, Namespace000(r), FilterId(r.id))
       IN Sent(Response(200, json(result.value)), result.store, 0)

(* --------------------- the three applications ------------------------- *)
\* src/src/app.js: health, token check, required fields, route handler.  The
\* handlers are async functions without a catch: when fwd (the Express
\* version passes a rejected promise to next) the error middleware answers,
\* otherwise nobody does.
serve_app(st, oid, fwd, r) ==
  IF chain(r) = "health" THEN Sent(health(r), st, 0)
  ELSE IF chain(r) = "unauthorized" THEN Sent(Unauthorized, st, 0)
  ELSE IF chain(r) = "missing" THEN Sent(MissingFields, st, 0)
  ELSE LET out ==
             CASE r.route = "create" -> create(st, oid, r)
               [] r.route = "delete" -> delete(st, oid, r)
               [] r.route = "find" -> find_app(st, oid, r)
               [] r.route = "aggregate" -> aggregate_(st, oid, r)
               [] r.route = "insert" -> insert_app(st, oid, r)
               [] r.route = "insertMany" -> insertMany_(st, oid, r)
               [] r.route = "findByIdAndUpdate" -> findByIdAndUpdate_app(st, oid, r)
               [] r.route = "findByIdAndDelete" -> findByIdAndDelete(st, oid, r)
       IN IF out.thrown /\ fwd THEN Sent(errorHandler(out.error), out.store, 0) ELSE out

\* const asyncHandler = (fn) => (req, res, next) =>
\*   Promise.resolve(fn(req, res, next)).catch(next)
asyncHandler(out) ==
  IF out.thrown THEN Sent(errorHandler(out.error), out.store, 0) ELSE out

\* part_001: the same chain, every handler wrapped in asyncHandler
serve_part001(st, oid, r) ==
  IF chain(r) = "health" THEN Sent(health(r), st, 0)
  ELSE IF chain(r) = "unauthorized" THEN Sent(Unauthorized, st, 0)
  ELSE IF chain(r) = "missing" THEN Sent(MissingFields, st, 0)
  ELSE asyncHandler(
         CASE r.route = "create" -> create(st, oid, r)
           [] r.route = "delete" -> delete(st, oid, r)
           [] r.route = "find" -> find_part001(st, oid, r)
           [] r.route = "aggregate" -> aggregate_(st, oid, r)
           [] r.route = "insert" -> insert_part001(st, oid, r)
           [] r.route = "insertMany" -> insertMany_(st, oid, r)
           [] r.route = "findByIdAndUpdate" -> findByIdAndUpdate_part001(st, oid, r)
           [] r.route = "findByIdAndDelete" -> findByIdAndDelete(st, oid, r))

\* part_000: token check first, then health and the handlers, each with its
\* own try/catch
serve_part000(st, oid, r) ==
  LET a == auth_part000(r)
  IN IF a = "throw" THEN Sent(defaultErrorHandler(TypeErrorOf("replace")), st, 0)
     ELSE IF a = "reject" THEN Sent(Unauthorized, st, 0)
     ELSE CASE r.route = "health" -> Sent(health(r), st, 0)
            [] r.route = "create" -> create_part000(st, oid, r)
            [] r.route = "delete" -> delete_part000(st, oid, r)
            [] r.route = "find" -> find_part000(st, oid, r)
            [] r.route = "aggregate" -> aggregate_part000(st, oid, r)
            [] r.route = "insert" -> insert_part000(st, oid, r)
            [] r.route = "insertMany" -> insertMany_part000(st, oid, r)
            [] r.route = "findByIdAndUpdate" -> findByIdAndUpdate_part000(st, oid, r)
            [] r.route = "findByIdAndDelete" -> findByIdAndDelete_part000(st, oid, r)

(* ------------------------------ the state ----------------------------- *)
VARIABLES
  variant,             \* which of the three applications is running
  forwardsRejections,  \* whether Express passes a rejected handler promise to next
  store,               \* the collections of the database
  nextOid,             \* the next ObjectId the driver generates
  req,                 \* the request served last
  res                  \* the response it got; status 0 when none was sent

vars == <<variant, forwardsRejections, store, nextOid, req, res>>

\* forwardsRejections shows only in app: part_001 wraps every handler in
\* asyncHandler and part_000 catches inside every handler
Init ==
  /\ variant \in Variants
  /\ forwardsRejections \in (IF variant = "app" THEN BOOLEAN ELSE {TRUE})
  /\ store = EmptyStore
  /\ nextOid = 1
  /\ req = NoRequest
  /\ res = NoResponse

\* one request, from its arrival to the end of its handler; requests are
\* served one at a time
Serve(r) ==
  LET out == CASE variant = "app" -> serve_app(store, nextOid, forwardsRejections, r)
               [] variant = "part_001" -> serve_part001(store, nextOid, r)
               [] variant = "part_000" -> serve_part000(store, nextOid, r)
  IN /\ req = NoRequest
     /\ nextOid + out.used <= MaxIds + 1
     /\ req' = r
     /\ res' = out.res
     /\ store' = out.store
     /\ nextOid' = nextOid + out.used
     /\ UNCHANGED <<variant, forwardsRejections>>

Health == \E r \in RequestTable[variant]["health"] : Serve(r)
Create == \E r \in RequestTable[variant]["create"] : Serve(r)
Delete == \E r \in RequestTable[variant]["delete"] : Serve(r)
Find == \E r \in RequestTable[variant]["find"] : Serve(r)
Aggregate == \E r \in RequestTable[variant]["aggregate"] : Serve(r)
Insert == \E r \in RequestTable[variant]["insert"] : Serve(r)
InsertMany == \E r \in RequestTable[variant]["insertMany"] : Serve(r)
FindByIdAndUpdate == \E r \in RequestTable[variant]["findByIdAndUpdate"] : Serve(r)
FindByIdAndDelete == \E r \in RequestTable[variant]["findByIdAndDelete"] : Serve(r)

\* the client has read the response (or given up waiting for one) and the
\* exchange is over
Finish ==
  /\ req # NoRequest
  /\ req' = NoRequest
  /\ res' = NoResponse
  /\ UNCHANGED <<variant, forwardsRejections, store, nextOid>>

Next ==
  \/ Health
  \/ Create
  \/ Delete
  \/ Find
  \/ Aggregate
  \/ Insert
  \/ InsertMany
  \/ FindByIdAndUpdate
  \/ FindByIdAndDelete
  \/ Finish

Spec == Init /\ [][Next]_vars

(* ===================== the claims about the proxy ===================== *)
\* a request arrives and is served in this step
Arrives == req = NoRequest /\ req' # NoRequest

\* the header value with a leading "Bearer " removed
StripPrefix(chars) == IF chars # <<>> /\ Head(chars) = Bearer THEN Tail(chars) ELSE chars

\* the request carries a token of the allowlist
TokenInAllowlist(r) ==
  /\ r.authorization # Undefined
  /\ StripPrefix(r.authorization.chars) \in allowedTokens

Present(v) == v.t = "string" /\ v.s # ""

\* the request names its collection the way the running variant reads it
WellNamed(r) ==
  IF variant = "part_000" THEN Present(r.collection)
  ELSE Present(r.dbName) /\ Present(r.collectionName)

Target(r) ==
  IF variant = "part_000" THEN <<DefaultDb, r.collection.s>>
  ELSE <<r.dbName.s, r.collectionName.s>>

IsErrorReply(r, status, msg) == r.status = status /\ r.body = Obj("error" :> Str(msg))

\* position of the document with the given ObjectId in a collection, 0 when absent
IndexOfId(ds, n) ==
  IF \E i \in 1..Len(ds) : ds[i]["_id"] = ObjectId(n)
  THEN CHOOSE i \in 1..Len(ds) : ds[i]["_id"] = ObjectId(n)
  ELSE 0

(* ------------------------------- C1 ----------------------------------- *)
\* C1 (as claimed): on every route but GET /health, a request without the
\* Authorization header, or whose header with the "Bearer " prefix removed
\* is not in the allowlist, gets 401 {error: 'Unauthorized'} and the
\* database is left as it was.
C1_UnauthorizedRejected ==
  [][(Arrives /\ req'.route # "health" /\ ~TokenInAllowlist(req'))
       => (IsErrorReply(res', 401, "Unauthorized") /\ store' = store)]_vars

(* ------------------------------- C2 ----------------------------------- *)
\* C2 (as claimed): GET /health requires auth: without an allowlisted token
\* the answer is 401, and only an allowlisted token gets the 200 reply.
C2_HealthRequiresAuth ==
  req.route = "health"
    => IF TokenInAllowlist(req)
       THEN res = Response(200, Text("MongoDB Proxy is running"))
       ELSE res.status = 401

(* ------------------------------- C3 ----------------------------------- *)
\* the variants whose bodies carry dbName and collectionName
ChecksRequiredFields == variant \in {"app", "part_001"}

LacksRequiredField(r) == ~Present(r.dbName) \/ ~Present(r.collectionName)

LacksOperationParam(r) ==
  \/ r.route = "aggregate" /\ r.pipeline = Undefined
  \/ r.route = "insert" /\ r.document = Undefined
  \/ r.route = "insertMany" /\ (r.documents.t # "array" \/ r.documents = Arr(<<>>))
  \/ r.route = "findByIdAndUpdate" /\ (r.id = Undefined \/ r.update = Undefined)
  \/ r.route = "findByIdAndDelete" /\ r.id = Undefined

\* C4: an authorized request with dbName and collectionName present whose
\* operation-specific parameter is missing gets status 400 and the database
\* is the same before and after.
C4_MissingParamIs400 ==
  [][(Arrives /\ TokenInAllowlist(req') /\ Present(req'.dbName)
        /\ Present(req'.collectionName) /\ LacksOperationParam(req'))
       => (res'.status = 400 /\ store' = store /\ nextOid' = nextOid)]_vars

C4_Witness ==
  /\ variant = "app"
  /\ req.route = "insertMany"
  /\ TokenInAllowlist(req)
  /\ Present(req.dbName) /\ Present(req.collectionName)
  /\ req.documents = Arr(<<>>)
  /\ res.status = 400
  /\ store[<<"shop", "users">>].docs # <<>>

(* ------------------------------- C5 ----------------------------------- *)
\* the database operation of the request fails on the database st, and the
\* message it fails with; "" when it does not fail
FailureOf(st, r) ==
  CASE r.route = "delete" /\ ~st[Target(r)].exists -> "ns not found"
    [] r.route = "create" /\ st[Target(r)].exists -> "Collection already exists"
    [] r.route = "findByIdAndUpdate" /\ r.id = NotHex /\ r.update # Undefined -> BSONError
    [] r.route = "findByIdAndDelete" /\ r.id = NotHex -> BSONError
    [] OTHER -> ""

\* C5 (as claimed): when the database operation of a data route fails
\* (dropping a collection that does not exist, creating one that exists, an
\* id that is no ObjectId), the answer is 500 {error: <the message>}.
C5_DatabaseErrorIs500 ==
  [][(Arrives /\ ChecksRequiredFields /\ TokenInAllowlist(req') /\ WellNamed(req')
        /\ FailureOf(store, req') # "")
       => IsErrorReply(res', 500, FailureOf(store, req'))]_vars

(* ------------------------------- C6 ----------------------------------- *)
\* the documents of the request's collection that match its filter
MatchingDocs(r) ==
  SelectDocs(store[Target(r)].docs, IF r.filter = Undefined THEN EmptyObject ELSE r.filter.f)

IsPositive(v) == v.t = "number" /\ v.n > 0

\* the skip and the limit the claim gives a find request
ClaimedSkip(r) == IF r.page = Undefined THEN 0 ELSE r.page.n * r.pageSize.n
ClaimedLimit(r) == IF IsPositive(r.pageSize) THEN r.pageSize.n ELSE 10

Positions(ds, from, n) == SubSeq(ds, from + 1, IF from + n < Len(ds) THEN from + n ELSE Len(ds))

\* C6 (as claimed): an authorized find with page p >= 0 and a positive
\* pageSize s answers the matching documents at positions p*s .. p*s+s-1;
\* without page the skip is 0, and a pageSize that is absent, zero or not a
\* number gives the limit 10.
C6_FindIsPaginated ==
  (/\ req.route = "find"
   /\ variant \in {"app", "part_000"}
   /\ TokenInAllowlist(req)
   /\ WellNamed(req)
   /\ req.page = Undefined \/ (req.page.t = "number" /\ IsPositive(req.pageSize)))
    => /\ res.status = 200
       /\ res.body = json(toArray(Positions(MatchingDocs(req), ClaimedSkip(req),
                                            ClaimedLimit(req))))

(* ------------------------------- C7 ----------------------------------- *)
\* an authorized, well named request by the id of a stored document
ById(r, route) ==
  /\ r.route = route
  /\ TokenInAllowlist(r)
  /\ WellNamed(r)
  /\ r.id.t = "hex"
  /\ IndexOfId(store[Target(r)].docs, r.id.n) # 0

InsertsOne(r) ==
  /\ r.route = "insert"
  /\ TokenInAllowlist(r)
  /\ WellNamed(r)
  /\ r.document.t = "object"

InsertsMany(r) ==
  /\ r.route = "insertMany"
  /\ TokenInAllowlist(r)
  /\ WellNamed(r)
  /\ r.documents.t = "array"
  /\ r.documents.a # <<>>

\* the fields part_001 stamps on insert
Stamps == {"createdAt", "updatedAt"}

\* the reply is 201 with the hex form of a fresh id, the collection gains
\* one document at its end, the document has that id and the fields of the
\* submitted document d outside `except`, and nothing else changes
GainsOne(r, except) ==
  LET ns == Target(r)
      old == store[ns].docs
      new == store'[ns].docs
      d == r.document.f
  IN /\ res'.status = 201
     /\ "insertedId" \in DOMAIN res'.body.f
     /\ res'.body.f["insertedId"].t = "hex"
     /\ IndexOfId(old, res'.body.f["insertedId"].n) = 0
     /\ Len(new) = Len(old) + 1
     /\ SubSeq(new, 1, Len(old)) = old
     /\ new[Len(new)]["_id"] = ObjectId(res'.body.f["insertedId"].n)
     /\ \A k \in DOMAIN d \ except : k \in DOMAIN new[Len(new)] /\ new[Len(new)][k] = d[k]
     /\ \A m \in Namespaces : m # ns => store'[m] = store[m]

\* the reply is 201 with insertedCount = n and the collection gains the n
\* submitted documents, in order, each with a fresh id of its own
GainsMany(r) ==
  LET ns == Target(r)
      old == store[ns].docs
      new == store'[ns].docs
      ds == r.documents.a
      n == Len(ds)
  IN /\ res'.status = 201
     /\ res'.body.f["insertedCount"] = Num(n)
     /\ Len(new) = Len(old) + n
     /\ SubSeq(new, 1, Len(old)) = old
     /\ \A j \in 1..n :
          /\ DOMAIN new[Len(old) + j] = DOMAIN ds[j] \cup {"_id"}
          /\ \A k \in DOMAIN ds[j] : new[Len(old) + j][k] = ds[j][k]
          /\ \A o \in 1..Len(new) :
               o # Len(old) + j => new[o]["_id"] # new[Len(old) + j]["_id"]
     /\ \A m \in Namespaces : m # ns => store'[m] = store[m]

C10_FilterIdIsCoerced ==
  (/\ req.route = "find"
   /\ ChecksRequiredFields
   /\ TokenInAllowlist(req)
   /\ WellNamed(req)
   /\ req.page = Undefined)
    => LET ds == store[Target(req)].docs
       IN /\ \A n \in Ids :
               (req.filter = Obj(FilterId(Hex(n))) /\ IndexOfId(ds, n) # 0)
                 => /\ res.status = 200
                    /\ res.body = json(toArray(<<ds[IndexOfId(ds, n)]>>))
                    /\ res.TotalRecords = Num(1)
          /\ (req.filter = Undefined \/ req.filter = Obj(FilterAlice))
               => /\ res.status = 200
                  /\ res.TotalRecords = Num(Len(MatchingDocs(req)))
                  /\ res.body = json(toArray(Positions(MatchingDocs(req), 0,
                                                       ClaimedLimit(req))))

(* ------------------------------- C11 ---------------------------------- *)
\* the status codes the middleware and the handlers send
StatusCodes == {200, 201, 400, 401, 500}

\* a response was sent: res.send() or res.json() ran for the request
Answered(r) == r.status \in StatusCodes

\* C11 (as claimed): every request the gateway received has got its one
\* response by the end of its handler, whatever the outcome: rejected by a
\* middleware, rejected by the handler's own validation, completed by the
\* database, failed by the database, or a create of a collection that exists.
C11_EveryRequestAnswered == req # NoRequest => Answered(res)
====
